---- MODULE Spec2Model ----
(***************************************************************************)
(* Model of GenAI/ai_utils.py (class AIProcessor): the four analysis       *)
(* stages, the lenient JSON extraction of _parse_json_response and the     *)
(* Python semantics they rest on (dict.get, len, iteration, try/except).   *)
(*                                                                         *)
(* Text is a sequence of lexemes.  A lexeme is one structural character    *)
(* ("{", "}", "[", "]", ":", ",", the double quote), one blank " ", or a   *)
(* word: a run of characters that holds no structural character and       *)
(* neither starts nor ends with a blank.                                   *)
(***************************************************************************)
EXTENDS Integers, Sequences, FiniteSets, TLC

\* ---------------------------------------------------------------- bounds
\* longest "risks" array the modelled replies carry
MaxRisks == 2

\* ------------------------------------------------------- Python values
\* Every Python value has the same record shape; t is the type tag.
PyNone == [t |-> "none", s |-> <<>>, n |-> 0, items |-> <<>>, keys |-> <<>>]

PyStr(lex) == [t |-> "str", s |-> lex, n |-> 0, items |-> <<>>, keys |-> <<>>]

PyInt(i) == [t |-> "int", s |-> <<>>, n |-> i, items |-> <<>>, keys |-> <<>>]

PyBool(b) == [t |-> "bool", s |-> <<>>, n |-> IF b THEN 1 ELSE 0, items |-> <<>>, keys |-> <<>>]

PyList(xs) == [t |-> "list", s |-> <<>>, n |-> 0, items |-> xs, keys |-> <<>>]

\* a dict: keys[i] (the lexemes of a str) maps to items[i], insertion order
PyDict(ks, xs) == [t |-> "dict", s |-> <<>>, n |-> 0, items |-> xs, keys |-> ks]

EmptyDict == PyDict(<<>>, <<>>)

EmptyList == PyList(<<>>)

\* the literal 'word' of the source
Lit(w) == PyStr(<<w>>)

\* a dict display {'k1': v1, 'k2': v2, ...}; pairs[i] = <<"ki", vi>>
DictOf(pairs) ==
    PyDict([i \in 1..Len(pairs) |-> <<pairs[i][1]>>],
           [i \in 1..Len(pairs) |-> pairs[i][2]])

\* d[k] = v on a dict: replace the value of an existing key, else append
DictSet(d, k, v) ==
    IF \E i \in 1..Len(d.keys) : d.keys[i] = k
    THEN PyDict(d.keys, [i \in 1..Len(d.keys) |-> IF d.keys[i] = k THEN v ELSE d.items[i]])
    ELSE PyDict(Append(d.keys, k), Append(d.items, v))

HasKey(d, w) == \E i \in 1..Len(d.keys) : d.keys[i] = <<w>>

\* d.get(w, default) for a dict d
DictGet(d, w, default) ==
    IF HasKey(d, w)
    THEN d.items[CHOOSE i \in 1..Len(d.keys) : d.keys[i] = <<w>>]
    ELSE default

\* ---------------------------------------------------- outcomes of a call
\* A call either returns a value or raises an exception of class exc.
Return(v) == [kind |-> "return", val |-> v, exc |-> "", msg |-> ""]

Raise(cls, m) == [kind |-> "raise", val |-> PyNone, exc |-> cls, msg |-> m]

\* isinstance(e, cls) for the exception classes that occur
IsInstance(exc, cls) ==
    CASE cls = "Exception"       -> TRUE
      [] cls = "JSONDecodeError" -> exc = "JSONDecodeError"
      [] OTHER                   -> exc = cls

\* x.get(w, default): only a dict has the attribute
Get(x, w, default) ==
    IF x.t = "dict" THEN Return(DictGet(x, w, default))
    ELSE Raise("AttributeError", "object has no attribute 'get'")

\* len(x); the length of a str is counted in lexemes (zero iff empty)
PyLen(x) ==
    CASE x.t = "list" -> Return(PyInt(Len(x.items)))
      [] x.t = "dict" -> Return(PyInt(Len(x.keys)))
      [] x.t = "str"  -> Return(PyInt(Len(x.s)))
      [] OTHER        -> Raise("TypeError", "object has no len()")

\* the elements `for r in x` visits (x has passed len): list items, dict
\* keys, the pieces of a str
Iter(x) ==
    CASE x.t = "list" -> x.items
      [] x.t = "dict" -> [i \in 1..Len(x.keys) |-> PyStr(x.keys[i])]
      [] OTHER        -> [i \in 1..Len(x.s) |-> PyStr(<<x.s[i]>>)]

\* ----------------------------------------------------------- json.loads
Quote == "\""

DigitVal == ("0" :> 0) @@ ("1" :> 1) @@ ("3" :> 3) @@ ("7" :> 7)

ParseFail == [ok |-> FALSE, val |-> PyNone, pos |-> 0]

ParseOk(v, p) == [ok |-> TRUE, val |-> v, pos |-> p]

\* first index >= i that holds no blank (Len(s)+1 if none)
SkipWs(s, i) ==
    IF \E j \in i..Len(s) : s[j] # " "
    THEN CHOOSE j \in i..Len(s) : s[j] # " " /\ \A k \in i..(j-1) : s[k] = " "
    ELSE Len(s) + 1

\* a string literal opening at s[i]: everything up to the next quote
ParseString(s, i) ==
    IF \E j \in (i+1)..Len(s) : s[j] = Quote
    THEN LET j == CHOOSE j \in (i+1)..Len(s) :
                     s[j] = Quote /\ \A k \in (i+1)..(j-1) : s[k] # Quote
         IN  ParseOk(PyStr(SubSeq(s, i+1, j-1)), j+1)
    ELSE ParseFail

RECURSIVE ParseValue(_, _)
RECURSIVE ParseMembers(_, _, _)
RECURSIVE ParseElements(_, _, _)

\* an object after a member's value: e is the next non-blank index, d the
\* pairs read so far, that member included
MembersEnd(s, e, d) ==
    IF e > Len(s) THEN ParseFail
    ELSE IF s[e] = "}" THEN ParseOk(d, e + 1)
    ELSE IF s[e] = "," THEN ParseMembers(s, e + 1, d)
    ELSE ParseFail

\* a member with key k (a parsed string) and value v (a parse result)
MembersValue(s, k, v, d) ==
    IF ~v.ok THEN ParseFail
    ELSE MembersEnd(s, SkipWs(s, v.pos), DictSet(d, k.val.s, v.val))

\* a member with key k: the colon is expected at the non-blank index c
MembersColon(s, k, c, d) ==
    IF c > Len(s) \/ s[c] # ":" THEN ParseFail
    ELSE MembersValue(s, k, ParseValue(s, c + 1), d)

\* a member whose key string has been scanned with result k
MembersKey(s, k, d) ==
    IF ~k.ok THEN ParseFail
    ELSE MembersColon(s, k, SkipWs(s, k.pos), d)

\* a member starting at the non-blank index i: a property name in quotes
MembersName(s, i, d) ==
    IF i > Len(s) \/ s[i] # Quote THEN ParseFail
    ELSE MembersKey(s, ParseString(s, i), d)

\* the members of an object from s[i0] on, after "{" or ","; d holds the
\* pairs read so far
ParseMembers(s, i0, d) == MembersName(s, SkipWs(s, i0), d)

\* an array after an element: e is the next non-blank index, xs the
\* elements read so far
ElementsEnd(s, e, xs) ==
    IF e > Len(s) THEN ParseFail
    ELSE IF s[e] = "]" THEN ParseOk(PyList(xs), e + 1)
    ELSE IF s[e] = "," THEN ParseElements(s, e + 1, xs)
    ELSE ParseFail

\* an element with parse result v
ElementsValue(s, v, xs) ==
    IF ~v.ok THEN ParseFail
    ELSE ElementsEnd(s, SkipWs(s, v.pos), Append(xs, v.val))

\* the elements of an array from s[i0] on, after "[" or ","
ParseElements(s, i0, xs) == ElementsValue(s, ParseValue(s, i0), xs)

\* the object opened at s[i]; j is the next non-blank index
ObjectAt(s, i, j) ==
    IF j <= Len(s) /\ s[j] = "}" THEN ParseOk(EmptyDict, j + 1)
    ELSE ParseMembers(s, i + 1, EmptyDict)

\* the array opened at s[i]; j is the next non-blank index
ArrayAt(s, i, j) ==
    IF j <= Len(s) /\ s[j] = "]" THEN ParseOk(EmptyList, j + 1)
    ELSE ParseElements(s, i + 1, <<>>)

\* the JSON value that starts at the non-blank index i
ValueAt(s, i) ==
    IF i > Len(s) THEN ParseFail
    ELSE CASE s[i] = "{" -> ObjectAt(s, i, SkipWs(s, i + 1))
           [] s[i] = "[" -> ArrayAt(s, i, SkipWs(s, i + 1))
           [] s[i] = Quote -> ParseString(s, i)
           [] s[i] = "null" -> ParseOk(PyNone, i + 1)
           [] s[i] = "true" -> ParseOk(PyBool(TRUE), i + 1)
           [] s[i] = "false" -> ParseOk(PyBool(FALSE), i + 1)
           [] s[i] \in DOMAIN DigitVal -> ParseOk(PyInt(DigitVal[s[i]]), i + 1)
           [] OTHER -> ParseFail

\* one JSON value starting at the first non-blank lexeme from i0 on
ParseValue(s, i0) == ValueAt(s, SkipWs(s, i0))

\* the end of json.loads: v is the parse of the one value
LoadsEnd(s, v) ==
    IF v.ok /\ SkipWs(s, v.pos) > Len(s) THEN Return(v.val)
    ELSE Raise("JSONDecodeError", "Expecting value or extra data")

\* json.loads(s): one value and nothing but blanks after it
json_loads(s) == LoadsEnd(s, ParseValue(s, 1))

\* re.search with the lazy pattern r'\{.*?\}': from the first "{" to the
\* first "}" behind it
re_search_NonGreedy(text) ==
    IF \E i \in 1..Len(text) : text[i] = "{" /\ \E j \in (i+1)..Len(text) : text[j] = "}"
    THEN LET i == CHOOSE i \in 1..Len(text) :
                     text[i] = "{" /\ \A k \in 1..(i-1) : text[k] # "{"
             j == CHOOSE j \in (i+1)..Len(text) :
                     text[j] = "}" /\ \A k \in (i+1)..(j-1) : text[k] # "}"
         IN  [found |-> TRUE, group |-> SubSeq(text, i, j)]
    ELSE [found |-> FALSE, group |-> <<>>]

\* re.search(r'\{.*\}', text, re.DOTALL): from the first "{" to the last
\* "}" behind it
re_search(text) ==
    IF \E i \in 1..Len(text) : text[i] = "{" /\ \E j \in (i+1)..Len(text) : text[j] = "}"
    THEN LET i == CHOOSE i \in 1..Len(text) :
                     text[i] = "{" /\ \A k \in 1..(i-1) : text[k] # "{"
             j == CHOOSE j \in 1..Len(text) :
                     text[j] = "}" /\ \A k \in (j+1)..Len(text) : text[k] # "}"
         IN  [found |-> TRUE, group |-> SubSeq(text, i, j)]
    ELSE [found |-> FALSE, group |-> <<>>]

\* ------------------------------------------------------------ AIProcessor
\* An operation is its try block followed by its except clause: the try
\* part gives Return(value) or the Raise that left it, the except part
\* turns a Raise it catches into the handler's return value.

\* _parse_json_response, the try block: json.loads of the match, {} when
\* there is none
ParseTry(m) == IF m.found THEN json_loads(m.group) ELSE Return(EmptyDict)

\* _parse_json_response, `except json.JSONDecodeError: return {}`
ParseExcept(body) ==
    IF body.kind = "raise" /\ IsInstance(body.exc, "JSONDecodeError")
    THEN Return(EmptyDict)
    ELSE body

\* _parse_json_response(response_text)
parse_json_response(response_text) == ParseExcept(ParseTry(re_search(response_text)))

\* summarize_document: the record built from what _parse_json_response gave
SummaryRecord(language, parsed) ==
    IF parsed.kind = "raise" THEN parsed
    ELSE Return(DictOf(<<
           <<"summary", DictGet(parsed.val, "summary", Lit("Summary not available"))>>,
           <<"key_points", DictGet(parsed.val, "key_points", EmptyList)>>,
           <<"important_dates", DictGet(parsed.val, "important_dates", EmptyList)>>,
           <<"parties", DictGet(parsed.val, "parties", EmptyList)>>,
           <<"language", Lit(language)>> >>))

\* summarize_document, the try block; model is what generate_content and
\* response.text produce: Return(str) or Raise
SummarizeTry(language, model) ==
    IF model.kind = "raise" THEN model
    ELSE SummaryRecord(language, parse_json_response(model.val.s))

\* summarize_document, `except Exception as e`
SummarizeExcept(language, body) ==
    IF body.kind = "raise" /\ IsInstance(body.exc, "Exception")
    THEN Return(DictOf(<<
           <<"summary", PyStr(<<"Error generating summary: ", body.msg>>)>>,
           <<"key_points", EmptyList>>,
           <<"important_dates", EmptyList>>,
           <<"parties", EmptyList>>,
           <<"language", Lit(language)>> >>))
    ELSE body

\* summarize_document(text, language)
summarize_document(language, model) ==
    SummarizeExcept(language, SummarizeTry(language, model))

\* str.strip(): drop the leading and the trailing blanks
Strip(s) ==
    IF \A i \in 1..Len(s) : s[i] = " " THEN <<>>
    ELSE SubSeq(s,
                CHOOSE i \in 1..Len(s) : s[i] # " " /\ \A k \in 1..(i-1) : s[k] = " ",
                CHOOSE j \in 1..Len(s) : s[j] # " " /\ \A k \in (j+1)..Len(s) : s[k] = " ")

\* answer_question, the try block
AnswerTry(model) ==
    IF model.kind = "raise" THEN model
    ELSE Return(PyStr(Strip(model.val.s)))

\* answer_question, `except Exception as e`
AnswerExcept(body) ==
    IF body.kind = "raise" /\ IsInstance(body.exc, "Exception")
    THEN Return(PyStr(<<"Error answering question: ", body.msg>>))
    ELSE body

\* answer_question(question, document_text, language)
answer_question(language, model) == AnswerExcept(AnswerTry(model))

\* len([r for r in risks if r.get('severity') == sev]), every r a dict
SeverityCount(risks, sev) ==
    Cardinality({ i \in 1..Len(Iter(risks)) :
                    DictGet(Iter(risks)[i], "severity", PyNone) = Lit(sev) })

\* risk_summary with the counts taken from the decoded reply where it has
\* them
RiskSummary_TrustsReplyCounts(language, result, risks) ==
    IF PyLen(risks).kind = "raise" THEN PyLen(risks)
    ELSE IF \E i \in 1..Len(Iter(risks)) : Iter(risks)[i].t # "dict"
         THEN Raise("AttributeError", "object has no attribute 'get'")
    ELSE Return(DictOf(<<
           <<"total_risks", DictGet(result, "total_risks", PyLen(risks).val)>>,
           <<"high_risk_count", DictGet(result, "high_risk_count",
                                        PyInt(SeverityCount(risks, "High")))>>,
           <<"medium_risk_count", DictGet(result, "medium_risk_count",
                                          PyInt(SeverityCount(risks, "Medium")))>>,
           <<"low_risk_count", DictGet(result, "low_risk_count",
                                       PyInt(SeverityCount(risks, "Low")))>>,
           <<"risks", risks>>,
           <<"language", Lit(language)>> >>))

\* detect_risks_advanced: risk_summary for risks = result.get('risks', []);
\* len(risks) raises TypeError on a value without length, r.get raises
\* AttributeError on an element that is no dict
RiskSummary(language, result, risks) ==
    IF PyLen(risks).kind = "raise" THEN PyLen(risks)
    ELSE IF \E i \in 1..Len(Iter(risks)) : Iter(risks)[i].t # "dict"
         THEN Raise("AttributeError", "object has no attribute 'get'")
    ELSE Return(DictOf(<<
           <<"total_risks", PyLen(risks).val>>,
           <<"high_risk_count", PyInt(SeverityCount(risks, "High"))>>,
           <<"medium_risk_count", PyInt(SeverityCount(risks, "Medium"))>>,
           <<"low_risk_count", PyInt(SeverityCount(risks, "Low"))>>,
           <<"risks", risks>>,
           <<"language", Lit(language)>> >>))

\* detect_risks_advanced from what _parse_json_response gave
DetectParsed(language, parsed) ==
    IF parsed.kind = "raise" THEN parsed
    ELSE RiskSummary(language, parsed.val, DictGet(parsed.val, "risks", EmptyList))

\* detect_risks_advanced, the try block
DetectTry(language, model) ==
    IF model.kind = "raise" THEN model
    ELSE DetectParsed(language, parse_json_response(model.val.s))

\* the handler written as `except json.JSONDecodeError as e`
DetectExcept_Narrow(language, body) ==
    IF body.kind = "raise" /\ IsInstance(body.exc, "JSONDecodeError")
    THEN Return(DictOf(<<
           <<"total_risks", PyInt(0)>>,
           <<"high_risk_count", PyInt(0)>>,
           <<"medium_risk_count", PyInt(0)>>,
           <<"low_risk_count", PyInt(0)>>,
           <<"risks", EmptyList>>,
           <<"language", Lit(language)>>,
           <<"error", PyStr(<<body.msg>>)>> >>))
    ELSE body

\* detect_risks_advanced, `except Exception as e`
DetectExcept(language, body) ==
    IF body.kind = "raise" /\ IsInstance(body.exc, "Exception")
    THEN Return(DictOf(<<
           <<"total_risks", PyInt(0)>>,
           <<"high_risk_count", PyInt(0)>>,
           <<"medium_risk_count", PyInt(0)>>,
           <<"low_risk_count", PyInt(0)>>,
           <<"risks", EmptyList>>,
           <<"language", Lit(language)>>,
           <<"error", PyStr(<<body.msg>>)>> >>))
    ELSE body

\* detect_risks_advanced(text, language)
detect_risks_advanced(language, model) ==
    DetectExcept(language, DetectTry(language, model))

\* the values the safety prompt interpolates from the risks argument:
\* risks.get('total_risks', 0) ... json.dumps(risks.get('risks', []))
SafetyPrompt(risks) ==
    IF risks.t # "dict" THEN Get(risks, "total_risks", PyInt(0))
    ELSE Return(PyList(<< DictGet(risks, "total_risks", PyInt(0)),
                          DictGet(risks, "high_risk_count", PyInt(0)),
                          DictGet(risks, "medium_risk_count", PyInt(0)),
                          DictGet(risks, "low_risk_count", PyInt(0)),
                          DictGet(risks, "risks", EmptyList) >>))

\* the record with 'SAFE' for the default safety_level
SafetyRecord_DefaultSafe(language, parsed) ==
    IF parsed.kind = "raise" THEN parsed
    ELSE Return(DictOf(<<
           <<"safety_level", DictGet(parsed.val, "safety_level", Lit("SAFE"))>>,
           <<"recommendation", DictGet(parsed.val, "recommendation",
                                       Lit("Please review the document carefully"))>>,
           <<"reasons", DictGet(parsed.val, "reasons", EmptyList)>>,
           <<"suggestions", DictGet(parsed.val, "suggestions", EmptyList)>>,
           <<"language", Lit(language)>> >>))

\* get_safety_recommendation: the record built from what
\* _parse_json_response gave
SafetyRecord(language, parsed) ==
    IF parsed.kind = "raise" THEN parsed
    ELSE Return(DictOf(<<
           <<"safety_level", DictGet(parsed.val, "safety_level", Lit("WARNING"))>>,
           <<"recommendation", DictGet(parsed.val, "recommendation",
                                       Lit("Please review the document carefully"))>>,
           <<"reasons", DictGet(parsed.val, "reasons", EmptyList)>>,
           <<"suggestions", DictGet(parsed.val, "suggestions", EmptyList)>>,
           <<"language", Lit(language)>> >>))

\* get_safety_recommendation, the try block: the model is called only once
\* the prompt is built
SafetyTry(risks, language, model) ==
    IF SafetyPrompt(risks).kind = "raise" THEN SafetyPrompt(risks)
    ELSE IF model.kind = "raise" THEN model
    ELSE SafetyRecord(language, parse_json_response(model.val.s))

\* get_safety_recommendation, `except Exception as e`
SafetyExcept(language, body) ==
    IF body.kind = "raise" /\ IsInstance(body.exc, "Exception")
    THEN Return(DictOf(<<
           <<"safety_level", Lit("WARNING")>>,
           <<"recommendation", PyStr(<<"Unable to analyze safety: ", body.msg>>)>>,
           <<"reasons", PyList(<<Lit("Analysis error occurred")>>)>>,
           <<"suggestions", PyList(<<Lit("Please review the document manually")>>)>>,
           <<"language", Lit(language)>> >>))
    ELSE body

\* get_safety_recommendation(text, risks, language)
get_safety_recommendation(risks, language, model) ==
    SafetyExcept(language, SafetyTry(risks, language, model))

\* ----------------------------------------------- what the model may reply
\* JSON text, lexeme by lexeme
StrText(w) == <<Quote, w, Quote>>

RECURSIVE Join(_)
\* the texts of a sequence, separated by ", "
Join(texts) ==
    IF texts = <<>> THEN <<>>
    ELSE IF Len(texts) = 1 THEN texts[1]
    ELSE texts[1] \o <<",", " ">> \o Join(Tail(texts))

KV(k, vtext) == StrText(k) \o <<":", " ">> \o vtext

ObjText(members) == <<"{">> \o Join(members) \o <<"}">>

ArrText(elements) == <<"[">> \o Join(elements) \o <<"]">>

\* one element of a "risks" array: a risk item with a severity label the
\* prompt asks for or another one, one without the label, a bare string
RiskItemTexts ==
    { ObjText(<<KV("type", StrText("Penalty")), KV("severity", StrText(sev))>>) :
          sev \in {"High", "Medium", "Low", "Critical"} }
    \cup { ObjText(<<KV("type", StrText("Penalty"))>>), StrText("penalty clause") }

RiskArrays == UNION { [1..n -> RiskItemTexts] : n \in 0..MaxRisks }

RiskBodies ==
    { ObjText(<<KV("risks", ArrText(a))>>) : a \in RiskArrays }
    \cup { ObjText(<<KV("total_risks", <<"7">>), KV("high_risk_count", <<"3">>),
                     KV("risks", ArrText(a))>>) : a \in {r \in RiskArrays : Len(r) <= 1} }
    \cup { ObjText(<<KV("total_risks", <<"7">>), KV("low_risk_count", <<"1">>)>>),
           ObjText(<<KV("risks", <<"null">>)>>),
           ObjText(<<KV("risks", StrText("none found"))>>),
           ObjText(<<KV("risks", <<"3">>)>>),
           ObjText(<<KV("risks", ObjText(<<>>))>>) }

SummaryBodies ==
    { ObjText(<<KV("summary", StrText("ok"))>>),
      ObjText(<<KV("summary", StrText("ok")), KV("key_points", ArrText(<<StrText("pay in 30 days")>>)),
                KV("important_dates", ArrText(<<>>)), KV("parties", ArrText(<<StrText("tenant")>>))>>),
      ObjText(<<KV("summary", StrText("ok")), KV("key_points", <<"null">>)>>),
      ObjText(<<KV("parties", StrText("tenant and owner")), KV("important_dates", <<"null">>)>>),
      ObjText(<<KV("summary", <<Quote, "clause", " ", "{", "x", "}", " ", "applies", Quote>>)>>),
      ObjText(<<>>) }

SafetyBodies ==
    { ObjText(<<KV("safety_level", StrText("SAFE"))>>),
      ObjText(<<KV("safety_level", StrText("DANGER")), KV("recommendation", StrText("do not sign")),
                KV("reasons", ArrText(<<StrText("high penalty")>>)), KV("suggestions", ArrText(<<>>))>>),
      ObjText(<<KV("safety_level", StrText("WARNING")), KV("safety_level", StrText("SAFE"))>>),
      ObjText(<<KV("recommendation", StrText("sign"))>>) }

\* replies without a decodable payload: no braces at all, an object never
\* closed, unquoted property names, a trailing comma
MalformedBodies ==
    { <<"I cannot help with that">>,
      <<"{">> \o KV("summary", StrText("ok")),
      <<"{", "summary", ":", " ", "ok", "}">>,
      <<"{">> \o KV("safety_level", StrText("SAFE")) \o <<",", "}">>,
      <<"{">> \o KV("risks", ArrText(<<>>)) \o <<",", "}">> }

Bodies == RiskBodies \cup SummaryBodies \cup SafetyBodies \cup MalformedBodies

\* prose in front of the payload, without braces
Prefixes ==
    { <<>>,
      <<"Here is the analysis", ":", " ">>,
      <<"As asked", ",", " ", Quote, "JSON", Quote, " ", "[", "1", "]", " ">> }

\* text behind the payload: nothing, prose without braces, commentary with
\* another {...} block, a stray closing brace
BraceFreeSuffixes == { <<>>, <<" ", "trailing junk">> }

BraceSuffixes == { <<" ", "note", " ", "{", "x", "}">>, <<" ", "}">> }

Suffixes == BraceFreeSuffixes \cup BraceSuffixes

ReplyTexts == { p \o b \o x : p \in Prefixes, b \in Bodies, x \in Suffixes }

\* generate_content fails: the exceptions the client library raises
ModelErrors == { "DeadlineExceeded", "ResourceExhausted" }

\* what self.model.generate_content(prompt) followed by response.text gives
ModelOutcomes ==
    { Return(PyStr(t)) : t \in ReplyTexts } \cup { Raise(e, e) : e \in ModelErrors }

Languages == { "English", "Hindi" }

\* the risks argument of get_safety_recommendation: absent, a report that
\* detect_risks_advanced returned, an empty dict
RisksArgs ==
    { PyNone, EmptyDict,
      detect_risks_advanced("English",
          Return(PyStr(ObjText(<<KV("risks", ArrText(<<
              ObjText(<<KV("type", StrText("Penalty")), KV("severity", StrText("High"))>>) >>))>>)))).val }

\* ---------------------------------------------------------------- prompts
\* A document text is a sequence of characters; a character is named by its
\* position in the document, so that a prompt shows which ones it holds.
DocText(n) == [i \in 1..n |-> i]

\* the character budgets of text[:4000] and document_text[:3000]
SummaryBudget == 4000

RiskBudget == 4000

AnswerBudget == 3000

\* how many characters beyond the largest budget the longest text has
MaxOver == 2

\* s[:n] of Python for n >= 0
Slice(s, n) == SubSeq(s, 1, IF Len(s) < n THEN Len(s) ELSE n)

\* the parts a prompt interpolates: the stage's template, {language},
\* {question}, the document text and the values taken from risks
Prompt(stage, language, question, document, risks) ==
    [stage |-> stage, language |-> language, question |-> question,
     document |-> document, risks |-> risks]

NoPrompt == Prompt("none", "", "", <<>>, PyNone)

\* summarize_document: prompt = f"""... {language} ... {text[:4000]} ..."""
SummaryPrompt(text, language) ==
    Prompt("summarize", language, "", Slice(text, SummaryBudget), PyNone)

\* detect_risks_advanced: prompt = f"""... {language} ... {text[:4000]} ..."""
RisksPrompt(text, language) ==
    Prompt("risks", language, "", Slice(text, RiskBudget), PyNone)

\* answer_question with the budget of the other stages
AnswerPrompt_SummaryBudget(question, document_text, language) ==
    Prompt("answer", language, question, Slice(document_text, SummaryBudget), PyNone)

\* answer_question: prompt = f"""... {question} ... {document_text[:3000]} ..."""
AnswerPrompt(question, document_text, language) ==
    Prompt("answer", language, question, Slice(document_text, AnswerBudget), PyNone)

\* get_safety_recommendation: the prompt holds the risk values and the
\* language; the text argument is not interpolated
SafetyPromptText(risks, language) ==
    IF SafetyPrompt(risks).kind = "raise" THEN NoPrompt
    ELSE Prompt("safety", language, "", <<>>, SafetyPrompt(risks).val)

\* generate_content calls of one invocation, retrying once after a failure
GenerateCalls_RetryOnFailure(built, model) ==
    IF ~built THEN 0 ELSE IF model.kind = "raise" THEN 2 ELSE 1

\* generate_content calls of one invocation: the one call behind the
\* prompt, none when building the prompt raised; model is its outcome
GenerateCalls(built, model) == IF built THEN 1 ELSE 0

\* ----------------------------------------------------------------- inputs
\* a short document
SampleText == DocText(3)

\* documents around the budgets
BoundaryTexts ==
    { DocText(n) : n \in {0, AnswerBudget - 1, AnswerBudget, AnswerBudget + 1,
                          SummaryBudget - 1, SummaryBudget} }
    \cup { DocText(SummaryBudget + k) : k \in 1..MaxOver }

\* a failure, a decodable reply and an undecodable one
SampleOutcomes ==
    { Raise("DeadlineExceeded", "DeadlineExceeded"),
      Return(PyStr(ObjText(<<KV("summary", StrText("ok"))>>))),
      Return(PyStr(<<"I cannot help with that">>)) }

\* the text argument with what the model does: every model outcome on the
\* short document, the sample outcomes on the documents around the budgets
StageInputs == ({SampleText} \X ModelOutcomes) \cup (BoundaryTexts \X SampleOutcomes)

Questions == { "What happens if I pay late?" }

\* ------------------------------------------------------ language registry
\* config.SUPPORTED_LANGUAGES as shipped
SUPPORTED_LANGUAGES ==
    DictOf(<< <<"English", Lit("en")>>, <<"Hindi", Lit("hi")>>, <<"Bengali", Lit("bn")>>,
              <<"Telugu", Lit("te")>>, <<"Marathi", Lit("mr")>>, <<"Tamil", Lit("ta")>>,
              <<"Gujarati", Lit("gu")>>, <<"Kannada", Lit("kn")>>, <<"Malayalam", Lit("ml")>>,
              <<"Punjabi", Lit("pa")>>, <<"Odia", Lit("or")>>, <<"Assamese", Lit("as")>>,
              <<"Urdu", Lit("ur")>>, <<"Sanskrit", Lit("sa")>>, <<"Nepali", Lit("ne")>>,
              <<"Bhojpuri", Lit("bh")>> >>)

\* del d[w] on a dict that has the key
DictDel(d, w) ==
    PyDict(SelectSeq(d.keys, LAMBDA k : k # <<w>>),
           [i \in 1..(Len(d.keys) - 1) |->
               d.items[IF \E j \in 1..i : d.keys[j] = <<w>> THEN i + 1 ELSE i]])

\* validate_language: `language in SUPPORTED_LANGUAGES` on the dict object
validate_language(reg, name) == Return(PyBool(HasKey(reg, name)))

\* get_supported_languages: `return SUPPORTED_LANGUAGES`, the dict object
\* itself
get_supported_languages(reg) == Return(reg)

\* names a caller asks about
AskedNames == { "English", "Hindi", "Klingon", "Spanish", "InvalidLanguage" }

\* what a caller writes into and deletes from the mapping it was given
AddedLanguages == { <<"Klingon", "tlh">>, <<"Spanish", "es">> }

DeletedLanguages == { "English", "Hindi" }

\* ------------------------------------------------------------ web layer
\* uploads that parse are numbered; 0 stands for no document
MaxDocs == 2

NoDocument == 0

Documents == 1..MaxDocs

\* Python truth value: `not v` is ~Truthy(v)
Truthy(v) ==
    IF v.t = "none" THEN FALSE
    ELSE IF v.t = "str" THEN Len(v.s) > 0
    ELSE IF v.t \in {"int", "bool"} THEN v.n # 0
    ELSE IF v.t = "list" THEN Len(v.items) > 0
    ELSE Len(v.keys) > 0

\* the session keys the routes write; NoDocument and None for a key not set
SessionOf(document_data, filename, summary, risks) ==
    [document_data |-> document_data, filename |-> filename, summary |-> summary,
     risks |-> risks]

EmptySession == SessionOf(NoDocument, NoDocument, PyNone, PyNone)

\* jsonify({...}), status
Respond(route, status, error, body) ==
    [route |-> route, status |-> status, error |-> error, body |-> body]

NoResponse == Respond("none", 0, "", PyNone)

\* a call of an AIProcessor stage: the document whose text is passed, the
\* risks argument, the language
Call(stage, document, risks, language) ==
    [stage |-> stage, document |-> document, risks |-> risks, language |-> language]

NoCall == Call("none", NoDocument, PyNone, "")

\* what a route leaves behind
Handled(sess, ai, resp, call) ==
    [session |-> sess, ai_processor |-> ai, response |-> resp, invoked |-> call]

\* request.get_json(): raises without a JSON body, else the keys sent
JsonBody(data) == [json |-> TRUE, data |-> data]

NoJsonBody == [json |-> FALSE, data |-> [k \in {} |-> ""]]

\* data.get(key, default)
BodyGet(body, key, default) ==
    IF key \in DOMAIN body.data THEN body.data[key] ELSE default

RequestBodies ==
    { NoJsonBody,
      JsonBody([k \in {} |-> ""]),
      JsonBody([k \in {"language"} |-> "Hindi"]),
      JsonBody([k \in {"question"} |-> ""]),
      JsonBody([k \in {"question"} |-> "What happens if I pay late?"]),
      JsonBody([k \in {"language", "question"} |->
                   IF k = "language" THEN "Hindi" ELSE "What happens if I pay late?"]) }

\* request.files and the file in it
UploadRequests ==
    { [kind |-> "ok", document |-> d] : d \in Documents }
    \cup { [kind |-> k, document |-> NoDocument] :
               k \in {"nofile", "noname", "badtype", "toolarge", "unparsable"} }

\* what the model does when a route's stage calls it
WebOutcomes ==
    { Raise("DeadlineExceeded", "DeadlineExceeded"),
      Return(PyStr(ObjText(<<KV("risks", ArrText(<<
          ObjText(<<KV("type", StrText("Penalty")), KV("severity", StrText("High"))>>) >>))>>))) }

\* /upload
upload_file(req, sess, ai) ==
    IF req.kind = "nofile"
    THEN Handled(sess, ai, Respond("/upload", 400, "No file uploaded", PyNone), NoCall)
    ELSE IF req.kind = "noname"
    THEN Handled(sess, ai, Respond("/upload", 400, "No file selected", PyNone), NoCall)
    ELSE IF req.kind = "badtype"
    THEN Handled(sess, ai,
                 Respond("/upload", 400,
                         "Invalid file type. Please upload PDF or DOCX files only.", PyNone),
                 NoCall)
    ELSE IF req.kind = "toolarge"
    THEN Handled(sess, ai,
                 Respond("/upload", 400, "File too large. Maximum size is 10MB.", PyNone),
                 NoCall)
    ELSE IF req.kind = "unparsable"
    THEN Handled(sess, ai, Respond("/upload", 500, "Upload failed", PyNone), NoCall)
    ELSE Handled([sess EXCEPT !.document_data = req.document, !.filename = req.document],
                 ai, Respond("/upload", 200, "", PyNone), NoCall)

\* the global after `if not ai_processor: initialize_ai()`; ok says whether
\* AIProcessor() can be constructed
AnalyzeProcessor_Reinitialized(ai, ok) == ok

AnalyzeProcessor(ai, ok) == ai \/ ok

\* /analyze from the stage call on
AnalyzeStage(language, result, sess, ai) ==
    IF result.kind = "raise"
    THEN Handled(sess, ai, Respond("/analyze", 500, "Analysis failed", PyNone),
                 Call("summarize", sess.document_data, PyNone, language))
    ELSE Handled([sess EXCEPT !.summary = result.val], ai,
                 Respond("/analyze", 200, "", result.val),
                 Call("summarize", sess.document_data, PyNone, language))

\* /analyze
analyze_document(body, ok, model, sess, ai) ==
    IF sess.document_data = NoDocument
    THEN Handled(sess, ai, Respond("/analyze", 400, "No document uploaded", PyNone), NoCall)
    ELSE IF ~AnalyzeProcessor(ai, ok)
    THEN Handled(sess, AnalyzeProcessor(ai, ok),
                 Respond("/analyze", 500, "AI service unavailable", PyNone), NoCall)
    ELSE IF ~body.json
    THEN Handled(sess, AnalyzeProcessor(ai, ok),
                 Respond("/analyze", 500, "Analysis failed", PyNone), NoCall)
    ELSE AnalyzeStage(BodyGet(body, "language", "English"),
                      summarize_document(BodyGet(body, "language", "English"), model),
                      sess, AnalyzeProcessor(ai, ok))

\* /risks from the stage call on
RisksStage(language, result, sess, ai) ==
    IF result.kind = "raise"
    THEN Handled(sess, ai, Respond("/risks", 500, "Risk detection failed", PyNone),
                 Call("risks", sess.document_data, PyNone, language))
    ELSE Handled([sess EXCEPT !.risks = result.val], ai,
                 Respond("/risks", 200, "", result.val),
                 Call("risks", sess.document_data, PyNone, language))

\* /risks
detect_risks(body, model, sess, ai) ==
    IF sess.document_data = NoDocument
    THEN Handled(sess, ai, Respond("/risks", 400, "No document uploaded", PyNone), NoCall)
    ELSE IF ~ai
    THEN Handled(sess, ai, Respond("/risks", 500, "AI service unavailable", PyNone), NoCall)
    ELSE IF ~body.json
    THEN Handled(sess, ai, Respond("/risks", 500, "Risk detection failed", PyNone), NoCall)
    ELSE RisksStage(BodyGet(body, "language", "English"),
                    detect_risks_advanced(BodyGet(body, "language", "English"), model),
                    sess, ai)

\* /safety: `not session.get('document_data') or not session.get('risks')`
\* is the negation of this
SafetyPrecondition_DocumentOnly(sess) == sess.document_data # NoDocument

SafetyPrecondition(sess) == sess.document_data # NoDocument /\ Truthy(sess.risks)

\* /safety from the stage call on
SafetyStage(language, result, sess, ai) ==
    IF result.kind = "raise"
    THEN Handled(sess, ai, Respond("/safety", 500, "Safety analysis failed", PyNone),
                 Call("safety", sess.document_data, sess.risks, language))
    ELSE Handled(sess, ai, Respond("/safety", 200, "", result.val),
                 Call("safety", sess.document_data, sess.risks, language))

\* /safety (get_safety_recommendation of app_flask.py)
safety_route(body, model, sess, ai) ==
    IF ~SafetyPrecondition(sess)
    THEN Handled(sess, ai, Respond("/safety", 400, "Document analysis required", PyNone),
                 NoCall)
    ELSE IF ~ai
    THEN Handled(sess, ai, Respond("/safety", 500, "AI service unavailable", PyNone), NoCall)
    ELSE IF ~body.json
    THEN Handled(sess, ai, Respond("/safety", 500, "Safety analysis failed", PyNone), NoCall)
    ELSE SafetyStage(BodyGet(body, "language", "English"),
                     get_safety_recommendation(sess.risks,
                                               BodyGet(body, "language", "English"), model),
                     sess, ai)

\* /chat from the stage call on
ChatStage(language, result, sess, ai) ==
    IF result.kind = "raise"
    THEN Handled(sess, ai, Respond("/chat", 500, "Chat failed", PyNone),
                 Call("answer", sess.document_data, PyNone, language))
    ELSE Handled(sess, ai, Respond("/chat", 200, "", result.val),
                 Call("answer", sess.document_data, PyNone, language))

\* /chat
chat_with_document(body, model, sess, ai) ==
    IF sess.document_data = NoDocument
    THEN Handled(sess, ai, Respond("/chat", 400, "No document uploaded", PyNone), NoCall)
    ELSE IF ~ai
    THEN Handled(sess, ai, Respond("/chat", 500, "AI service unavailable", PyNone), NoCall)
    ELSE IF ~body.json
    THEN Handled(sess, ai, Respond("/chat", 500, "Chat failed", PyNone), NoCall)
    ELSE IF BodyGet(body, "question", "") = ""
    THEN Handled(sess, ai, Respond("/chat", 400, "No question provided", PyNone), NoCall)
    ELSE ChatStage(BodyGet(body, "language", "English"),
                   answer_question(BodyGet(body, "language", "English"), model),
                   sess, ai)

\* ----------------------------------------------------------------- state
VARIABLES
    pc,        \* "idle": no call in progress; "returned": a call has ended
    op,        \* the operation called last
    language,  \* its language argument
    risksArg,  \* its risks argument (get_safety_recommendation)
    reply,     \* what the model gave: Return(text) or Raise
    calls,     \* generate_content calls the operation made
    out,       \* what the operation gave its caller: Return(value) or Raise
    text,      \* its text argument
    prompt     \* the prompt it passed to generate_content

coreVars == <<pc, op, language, risksArg, reply, calls, out, text, prompt>>

VARIABLES
    registry,  \* the dict object SUPPORTED_LANGUAGES of config.py
    alias      \* a caller holds the dict get_supported_languages returned

regVars == <<registry, alias>>

VARIABLES
    session,       \* the client's cookie session
    ai_processor,  \* the global of app_flask.py: FALSE is None
    response,      \* the answer to the last request
    invoked,       \* the stage call the last request made, if any
    risksDoc       \* history: the document session['risks'] was made for

webVars == <<session, ai_processor, response, invoked, risksDoc>>

vars == <<coreVars, regVars, webVars>>

NoReply == Return(PyStr(<<>>))

InitCore ==
    /\ pc = "idle"
    /\ op = "none"
    /\ language = "English"
    /\ risksArg = PyNone
    /\ reply = NoReply
    /\ calls = 0
    /\ out = Return(PyNone)
    /\ text = <<>>
    /\ prompt = NoPrompt

\* config.py has been imported; nobody has asked for the mapping yet
InitRegistry ==
    /\ registry = SUPPORTED_LANGUAGES
    /\ alias = FALSE

\* app_flask.py has been imported, the client has an empty session
InitWeb ==
    /\ session = EmptySession
    /\ ai_processor = FALSE
    /\ response = NoResponse
    /\ invoked = NoCall
    /\ risksDoc = NoDocument

Init == InitCore /\ InitRegistry /\ InitWeb

Summarize ==
    /\ pc = "idle"
    /\ \E l \in Languages, in \in StageInputs :
          /\ language' = l
          /\ text' = in[1]
          /\ prompt' = SummaryPrompt(in[1], l)
          /\ reply' = in[2]
          /\ calls' = GenerateCalls(TRUE, in[2])
          /\ out' = summarize_document(l, in[2])
    /\ op' = "summarize"
    /\ pc' = "returned"
    /\ UNCHANGED <<risksArg, regVars, webVars>>

DetectRisks ==
    /\ pc = "idle"
    /\ \E l \in Languages, in \in StageInputs :
          /\ language' = l
          /\ text' = in[1]
          /\ prompt' = RisksPrompt(in[1], l)
          /\ reply' = in[2]
          /\ calls' = GenerateCalls(TRUE, in[2])
          /\ out' = detect_risks_advanced(l, in[2])
    /\ op' = "risks"
    /\ pc' = "returned"
    /\ UNCHANGED <<risksArg, regVars, webVars>>

\* the model is reached only when the prompt could be built
Safety ==
    /\ pc = "idle"
    /\ \E l \in Languages, r \in RisksArgs :
          /\ language' = l
          /\ risksArg' = r
          /\ prompt' = SafetyPromptText(r, l)
          /\ IF SafetyPrompt(r).kind = "raise"
             THEN /\ text' = SampleText
                  /\ reply' = NoReply
                  /\ calls' = GenerateCalls(FALSE, NoReply)
                  /\ out' = get_safety_recommendation(r, l, NoReply)
             ELSE \E in \in StageInputs :
                  /\ text' = in[1]
                  /\ reply' = in[2]
                  /\ calls' = GenerateCalls(TRUE, in[2])
                  /\ out' = get_safety_recommendation(r, l, in[2])
    /\ op' = "safety"
    /\ pc' = "returned"
    /\ UNCHANGED <<regVars, webVars>>

Answer ==
    /\ pc = "idle"
    /\ \E l \in Languages, q \in Questions, in \in StageInputs :
          /\ language' = l
          /\ text' = in[1]
          /\ prompt' = AnswerPrompt(q, in[1], l)
          /\ reply' = in[2]
          /\ calls' = GenerateCalls(TRUE, in[2])
          /\ out' = answer_question(l, in[2])
    /\ op' = "answer"
    /\ pc' = "returned"
    /\ UNCHANGED <<risksArg, regVars, webVars>>

\* _parse_json_response on its own, on any reply text
ParseJson ==
    /\ pc = "idle"
    /\ \E t \in ReplyTexts :
          /\ reply' = Return(PyStr(t))
          /\ out' = parse_json_response(t)
    /\ op' = "parse"
    /\ calls' = 0
    /\ pc' = "returned"
    /\ UNCHANGED <<language, risksArg, text, prompt, regVars, webVars>>

\* the caller has taken the result; the processor keeps nothing of the call
TakeResult ==
    /\ pc = "returned"
    /\ pc' = "idle"
    /\ op' = "none"
    /\ language' = "English"
    /\ risksArg' = PyNone
    /\ reply' = NoReply
    /\ calls' = 0
    /\ out' = Return(PyNone)
    /\ text' = <<>>
    /\ prompt' = NoPrompt
    /\ UNCHANGED <<regVars, webVars>>

Next == Summarize \/ DetectRisks \/ Safety \/ Answer \/ ParseJson \/ TakeResult

Spec == Init /\ [][Next]_vars

\* ------------------------------------------- the registry and its callers
GetSupportedLanguages ==
    /\ pc = "idle"
    /\ out' = get_supported_languages(registry)
    /\ alias' = TRUE
    /\ op' = "languages"
    /\ pc' = "returned"
    /\ UNCHANGED <<language, risksArg, reply, calls, text, prompt, registry, webVars>>

ValidateLanguage ==
    /\ pc = "idle"
    /\ \E name \in AskedNames :
          /\ language' = name
          /\ out' = validate_language(registry, name)
    /\ op' = "validate"
    /\ pc' = "returned"
    /\ UNCHANGED <<risksArg, reply, calls, text, prompt, regVars, webVars>>

\* a caller does languages[name] = code on the dict it was given, which is
\* the registry itself
CallerSetsItem ==
    /\ alias
    /\ \E a \in AddedLanguages : registry' = DictSet(registry, <<a[1]>>, Lit(a[2]))
    /\ UNCHANGED <<coreVars, alias, webVars>>

\* a caller does del languages[name] on the dict it was given
CallerDeletesItem ==
    /\ alias
    /\ \E name \in DeletedLanguages :
          /\ HasKey(registry, name)
          /\ registry' = DictDel(registry, name)
    /\ UNCHANGED <<coreVars, alias, webVars>>

NextRegistry ==
    GetSupportedLanguages \/ ValidateLanguage \/ CallerSetsItem \/ CallerDeletesItem
    \/ TakeResult

SpecRegistry == Init /\ [][NextRegistry]_vars

\* ------------------------------------------------- requests of one client
\* the route has run: its effects on the session, the global, the answer
Leaves(h) ==
    /\ session' = h.session
    /\ ai_processor' = h.ai_processor
    /\ response' = h.response
    /\ invoked' = h.invoked
    /\ risksDoc' = IF h.invoked.stage = "risks" /\ h.response.status = 200
                   THEN session.document_data
                   ELSE risksDoc

GetIndex ==
    /\ Leaves(Handled(session, ai_processor, Respond("/", 200, "", PyNone), NoCall))
    /\ UNCHANGED <<coreVars, regVars>>

PostUpload ==
    /\ \E req \in UploadRequests : Leaves(upload_file(req, session, ai_processor))
    /\ UNCHANGED <<coreVars, regVars>>

PostAnalyze ==
    /\ \E body \in RequestBodies, ok \in BOOLEAN, m \in WebOutcomes :
          Leaves(analyze_document(body, ok, m, session, ai_processor))
    /\ UNCHANGED <<coreVars, regVars>>

PostRisks ==
    /\ \E body \in RequestBodies, m \in WebOutcomes :
          Leaves(detect_risks(body, m, session, ai_processor))
    /\ UNCHANGED <<coreVars, regVars>>

PostSafety ==
    /\ \E body \in RequestBodies, m \in WebOutcomes :
          Leaves(safety_route(body, m, session, ai_processor))
    /\ UNCHANGED <<coreVars, regVars>>

PostChat ==
    /\ \E body \in RequestBodies, m \in WebOutcomes :
          Leaves(chat_with_document(body, m, session, ai_processor))
    /\ UNCHANGED <<coreVars, regVars>>

\* the server process starts again: the global is None after the import and
\* initialize_ai() runs under __main__; the session is the client's cookie
StartProcess ==
    /\ \E ok \in BOOLEAN :
          Leaves(Handled(session, ok, Respond("start", 0, "", PyNone), NoCall))
    /\ UNCHANGED <<coreVars, regVars>>

NextWeb ==
    GetIndex \/ PostUpload \/ PostAnalyze \/ PostRisks \/ PostSafety \/ PostChat
    \/ StartProcess

SpecWeb == Init /\ [][NextWeb]_vars

\* ------------------------------------------------------------ properties
Returned(o) == pc = "returned" /\ op = o

StructuredStages == { "summarize", "risks", "safety" }

\* the field w of the record the operation returned (None when absent)
OutField(w) == DictGet(out.val, w, PyNone)

\* the payload _parse_json_response decodes from the model's reply
Payload == parse_json_response(reply.val.s).val

\* len of a returned sequence-like value
SizeOf(v) == IF v.t = "list" THEN Len(v.items) ELSE IF v.t = "dict" THEN Len(v.keys) ELSE Len(v.s)

\* the reply is prose p, body b, trailing text x
ReplyIs(p, b, x) == reply.kind = "return" /\ reply.val.s = p \o b \o x

\* C1: get_safety_recommendation called with risks = None signals a
\* precondition error: it never returns an ordinary Safety Recommendation
\* whose safety_level is SAFE or WARNING.
C1_AbsentRisksSignalsPreconditionError ==
    (Returned("safety") /\ risksArg = PyNone) =>
        ~(out.kind = "return" /\ OutField("safety_level") \in {Lit("SAFE"), Lit("WARNING")})

\* C2: in every Risk Report of detect_risks_advanced the three severity
\* counts sum to total_risks, whatever severity labels the reply carries.
C2_SeverityCountsSumToTotal ==
    Returned("risks") =>
        /\ out.kind = "return"
        /\ OutField("high_risk_count").n + OutField("medium_risk_count").n
             + OutField("low_risk_count").n = OutField("total_risks").n

\* number of items of the returned risks whose severity is sev
ReturnedWithSeverity(sev) ==
    LET rs == OutField("risks").items IN
    Cardinality({ i \in 1..Len(rs) : DictGet(rs[i], "severity", PyNone) = Lit(sev) })

\* C3: in every Risk Report total_risks is the length of the returned
\* risks and the severity counts are recounted from them; counts the reply
\* claims never reach the record; empty or absent risks give all zero.
C3_CountsRecomputedFromRisks ==
    Returned("risks") =>
        /\ out.kind = "return"
        /\ OutField("total_risks") = PyInt(SizeOf(OutField("risks")))
        /\ OutField("high_risk_count") = PyInt(ReturnedWithSeverity("High"))
        /\ OutField("medium_risk_count") = PyInt(ReturnedWithSeverity("Medium"))
        /\ OutField("low_risk_count") = PyInt(ReturnedWithSeverity("Low"))
        /\ (reply.kind = "return" /\ (~HasKey(Payload, "risks") \/ SizeOf(OutField("risks")) = 0)) =>
               \A c \in {"total_risks", "high_risk_count", "medium_risk_count", "low_risk_count"} :
                   OutField(c) = PyInt(0)

\* a reply that claims total_risks 7 and high_risk_count 3 around one
\* High risk item: the report says 1 and 1
C3_Witness ==
    /\ Returned("risks")
    /\ reply.kind = "return"
    /\ DictGet(Payload, "total_risks", PyNone) = PyInt(7)
    /\ DictGet(Payload, "high_risk_count", PyNone) = PyInt(3)
    /\ OutField("total_risks") = PyInt(1)
    /\ OutField("high_risk_count") = PyInt(1)

\* the keys of each stage's record
StageKeys(o) ==
    CASE o = "summarize" -> {"summary", "key_points", "important_dates", "parties", "language"}
      [] o = "risks" -> {"total_risks", "high_risk_count", "medium_risk_count",
                         "low_risk_count", "risks", "language"}
      [] o = "safety" -> {"safety_level", "recommendation", "reasons", "suggestions", "language"}
      [] OTHER -> {}

\* C4: no stage propagates an exception when the model call raises or the
\* reply is undecodable or ill-shaped: each returns a value of its shape
\* (a record with the stage's fields, a string for answer_question).
C4_StagesNeverRaise ==
    (pc = "returned" /\ op \in StructuredStages \cup {"answer"}) =>
        /\ out.kind = "return"
        /\ op = "answer" => out.val.t = "str"
        /\ op \in StructuredStages =>
               out.val.t = "dict" /\ \A k \in StageKeys(op) : HasKey(out.val, k)

\* a decodable reply whose risks hold an entry that is not a record
C4_Witness ==
    /\ Returned("risks")
    /\ reply.kind = "return"
    /\ HasKey(Payload, "risks")
    /\ DictGet(Payload, "risks", PyNone).t = "list"
    /\ \E i \in 1..Len(DictGet(Payload, "risks", PyNone).items) :
           DictGet(Payload, "risks", PyNone).items[i].t = "str"
    /\ out.kind = "return"
    /\ HasKey(out.val, "error")

\* C5: summarize_document returns the requested language, and key_points,
\* important_dates and parties are each a sequence, never absent or null.
C5_SummarySequencesNeverNull ==
    Returned("summarize") =>
        /\ out.kind = "return"
        /\ OutField("language") = Lit(language)
        /\ \A k \in {"key_points", "important_dates", "parties"} :
               HasKey(out.val, k) /\ OutField(k).t = "list"

\* the defaults of each stage for every field but language
StageDefault(o, k) ==
    CASE k = "summary" -> Lit("Summary not available")
      [] k = "safety_level" -> Lit("WARNING")
      [] k = "recommendation" -> Lit("Please review the document carefully")
      [] k \in {"total_risks", "high_risk_count", "medium_risk_count", "low_risk_count"} -> PyInt(0)
      [] OTHER -> EmptyList

\* C6: when the model call fails in a structured stage, the record carries
\* the error string in a dedicated error field and every other field holds
\* the stage's default.
C6_FailureCarriesErrorFieldAndDefaults ==
    (pc = "returned" /\ op \in StructuredStages /\ reply.kind = "raise") =>
        /\ out.kind = "return"
        /\ HasKey(out.val, "error")
        /\ OutField("error") = PyStr(<<reply.msg>>)
        /\ OutField("language") = Lit(language)
        /\ \A k \in StageKeys(op) \ {"language"} : OutField(k) = StageDefault(op, k)

\* a reply without any decodable payload
Undecodable == <<"I cannot help with that">>

\* what stage o returns for language l on the model outcome m
StageResult(o, l, m) ==
    CASE o = "summarize" -> summarize_document(l, m)
      [] o = "risks" -> detect_risks_advanced(l, m)
      [] OTHER -> get_safety_recommendation(risksArg, l, m)

\* C7: a failed model call is recovered exactly as a reply without a
\* decodable payload is: on every field of the stage the record equals
\* the one the stage returns, for the same language, on such a reply.
C7_FailureRecoveredLikeMalformedReply ==
    (pc = "returned" /\ op \in StructuredStages /\ reply.kind = "raise") =>
        \A k \in StageKeys(op) :
            OutField(k) = DictGet(StageResult(op, language, Return(PyStr(Undecodable))).val, k, PyNone)

\* C8: get_safety_recommendation gives WARNING whenever the model is not
\* reached or fails or the decoded payload has no safety_level; it gives
\* SAFE only when the decoded reply itself carries safety_level SAFE.
C8_SafetyNeverSafeByDefault ==
    Returned("safety") =>
        /\ out.kind = "return"
        /\ (calls = 0 \/ reply.kind = "raise" \/ ~HasKey(Payload, "safety_level")) =>
               OutField("safety_level") = Lit("WARNING")
        /\ OutField("safety_level") = Lit("SAFE") =>
               /\ calls = 1
               /\ reply.kind = "return"
               /\ DictGet(Payload, "safety_level", PyNone) = Lit("SAFE")

\* a decoded reply that recommends signing and names no safety level
C8_Witness ==
    /\ Returned("safety")
    /\ calls = 1
    /\ reply.kind = "return"
    /\ DictGet(Payload, "recommendation", PyNone) = Lit("sign")
    /\ ~HasKey(Payload, "safety_level")
    /\ OutField("recommendation") = Lit("sign")
    /\ OutField("safety_level") = Lit("WARNING")

\* no "{" with a "}" behind it
NoBracePair(t) ==
    ~ \E i \in 1..Len(t) : t[i] = "{" /\ \E j \in (i+1)..Len(t) : t[j] = "}"

\* C9: _parse_json_response on brace-free prose, one well-formed object and
\* brace-free trailing text gives exactly the object's fields; a reply with
\* no bracket pair, or whose candidate does not decode, gives {}.
C9_ExtractsEmbeddedObject ==
    Returned("parse") =>
        /\ out.kind = "return"
        /\ \A p \in Prefixes, b \in Bodies, x \in BraceFreeSuffixes :
               (ReplyIs(p, b, x) /\ json_loads(b).kind = "return") => out.val = json_loads(b).val
        /\ \A p \in Prefixes, x \in BraceFreeSuffixes :
               ReplyIs(p, ObjText(<<KV("summary", StrText("ok"))>>), x) =>
                   out.val = DictOf(<< <<"summary", Lit("ok")>> >>)
        /\ NoBracePair(reply.val.s) => out.val = EmptyDict
        /\ \A p \in Prefixes, b \in MalformedBodies, x \in BraceFreeSuffixes :
               ReplyIs(p, b, x) => out.val = EmptyDict

\* prose, {"summary": "ok"}, trailing junk
C9_Witness ==
    /\ Returned("parse")
    /\ ReplyIs(<<"Here is the analysis", ":", " ">>,
               ObjText(<<KV("summary", StrText("ok"))>>), <<" ", "trailing junk">>)
    /\ out = Return(DictOf(<< <<"summary", Lit("ok")>> >>))

\* C10: when a well-formed object is followed by commentary that holds
\* another {...} block or a stray "}", _parse_json_response returns the
\* decoded content of the first block.
C10_OnlyFirstRegionUsed ==
    Returned("parse") =>
        \A p \in Prefixes, b \in Bodies, x \in BraceSuffixes :
            (ReplyIs(p, b, x) /\ json_loads(b).kind = "return") =>
                out = Return(json_loads(b).val)

\* the budget the statement gives each stage
StatedBudget(o) == IF o = "answer" THEN 3000 ELSE 4000

\* C11: for a text longer than the stage's budget (4000 for
\* summarize_document and detect_risks_advanced, 3000 for answer_question)
\* the prompt embeds exactly the first budget characters of the text and
\* none behind them; a text within the budget is embedded whole.
C11_PromptEmbedsBudgetPrefix ==
    (pc = "returned" /\ op \in {"summarize", "risks", "answer"}) =>
        /\ prompt.stage = op
        /\ IF Len(text) > StatedBudget(op)
           THEN /\ Len(prompt.document) = StatedBudget(op)
                /\ \A i \in 1..StatedBudget(op) : prompt.document[i] = text[i]
                /\ \A i \in 1..Len(prompt.document) : prompt.document[i] <= StatedBudget(op)
           ELSE prompt.document = text

\* a question on a document of 3001 characters: the prompt holds 3000
C11_Witness ==
    /\ Returned("answer")
    /\ Len(text) = 3001
    /\ Len(prompt.document) = 3000
    /\ prompt.document[3000] = text[3000]

\* C12 as stated: every invocation of a stage makes exactly one
\* generate_content call, whatever the inputs.
C12_ExactlyOneModelCall ==
    (pc = "returned" /\ op \in StructuredStages \cup {"answer"}) => calls = 1

\* C12 amended: an invocation makes one generate_content call and no
\* second one after a failure or an undecodable reply, except that
\* get_safety_recommendation with a risks argument that is no dict
\* (None) makes none.
C12_OneModelCallUnlessPromptFails ==
    (pc = "returned" /\ op \in StructuredStages \cup {"answer"}) =>
        /\ calls <= 1
        /\ calls = 0 <=> (op = "safety" /\ risksArg.t # "dict")
        /\ calls = 0 => reply = NoReply

\* a failed model call is not repeated
C12_Witness ==
    /\ Returned("summarize")
    /\ reply.kind = "raise"
    /\ calls = 1

\* the names shipped in config.py
ShippedNames ==
    { "English", "Hindi", "Bengali", "Telugu", "Marathi", "Tamil", "Gujarati", "Kannada",
      "Malayalam", "Punjabi", "Odia", "Assamese", "Urdu", "Sanskrit", "Nepali", "Bhojpuri" }

\* C13: at every point of any sequence of calls validate_language(name) is
\* true exactly for the shipped names and get_supported_languages returns
\* the shipped, non-empty mapping, whatever callers did with a mapping they
\* were given earlier.
C13_RegistryIsReadOnly ==
    /\ Returned("validate") => out = Return(PyBool(language \in ShippedNames))
    /\ Returned("languages") =>
           /\ out.val.t = "dict"
           /\ { out.val.keys[i][1] : i \in 1..Len(out.val.keys) } = ShippedNames

\* C14: whenever /safety invokes the safety stage, the risk report it
\* passes was made by a /risks request for the document the session holds
\* now, also after a later upload has replaced the document.
C14_SafetyReportMadeForCurrentDocument ==
    invoked.stage = "safety" => risksDoc = invoked.document

\* the step is the handling of a request to the route
Handles(route) == response'.route = route

\* the step made no stage call and left the session alone
Refuses(status, error) ==
    /\ response'.status = status
    /\ response'.error = error
    /\ invoked' = NoCall
    /\ session' = session

HoldsDocument == session.document_data # NoDocument

\* session['risks'] is there and a /risks request stored it
HoldsRiskReport == session.risks # PyNone /\ risksDoc # NoDocument

\* C15: /safety invokes get_safety_recommendation only if the session holds
\* both an uploaded document and a risk report stored by an earlier /risks
\* request, and otherwise answers 'Document analysis required' (400) and
\* leaves the session unchanged; /analyze, /risks and /chat invoke a stage
\* only if the session holds an uploaded document.
C15_StagesNeedWhatTheSessionHolds ==
    [][ /\ (Handles("/safety") /\ ~(HoldsDocument /\ HoldsRiskReport))
            => Refuses(400, "Document analysis required")
        /\ invoked'.stage = "safety"
            => Handles("/safety") /\ HoldsDocument /\ HoldsRiskReport
               /\ invoked'.risks = session.risks
        /\ invoked'.stage # "none" => HoldsDocument
      ]_vars

\* /safety was refused on a session with a document but no risk report
C15_Witness ==
    /\ response.route = "/safety"
    /\ response.status = 400
    /\ response.error = "Document analysis required"
    /\ HoldsDocument
    /\ session.risks = PyNone
    /\ invoked = NoCall

\* the processor is initialized only by /analyze or when the process starts
OnlyAnalyzeInitializes ==
    (~ai_processor /\ ai_processor') => (Handles("/analyze") \/ Handles("start"))

\* once initialized the processor stays so for every later request
StaysInitialized == (ai_processor /\ ~Handles("start")) => ai_processor'

\* C16 as claimed: the processor starts uninitialized and only /analyze or
\* process start-up initializes it; while it is uninitialized /risks,
\* /safety and /chat on a session with an uploaded document answer 'AI
\* service unavailable' (500) without a stage call or a session change;
\* once initialized it stays initialized for every later request.
C16_UninitializedAlwaysUnavailable ==
    /\ ~ai_processor
    /\ [][ /\ OnlyAnalyzeInitializes
           /\ (~ai_processor /\ HoldsDocument
                 /\ (Handles("/risks") \/ Handles("/safety") \/ Handles("/chat")))
               => Refuses(500, "AI service unavailable")
           /\ StaysInitialized
         ]_vars

\* C16: as above, except that /safety answers 'AI service unavailable' only
\* when the session also holds a risk report; without one it answers
\* 'Document analysis required' (400), the processor not being looked at.
C16_UnavailableAfterSessionChecks ==
    /\ ~ai_processor
    /\ [][ /\ OnlyAnalyzeInitializes
           /\ (~ai_processor /\ HoldsDocument /\ (Handles("/risks") \/ Handles("/chat")))
               => Refuses(500, "AI service unavailable")
           /\ (~ai_processor /\ HoldsDocument /\ Handles("/safety"))
               => IF session.risks # PyNone
                  THEN Refuses(500, "AI service unavailable")
                  ELSE Refuses(400, "Document analysis required")
           /\ StaysInitialized
         ]_vars

\* /safety found the processor gone on a session holding document and report
C16_Witness ==
    /\ ~ai_processor
    /\ response.route = "/safety"
    /\ response.status = 500
    /\ response.error = "AI service unavailable"
    /\ HoldsDocument
    /\ session.risks # PyNone
    /\ invoked = NoCall

====
